---- MODULE Spec2Model ----
(***************************************************************************)
(* A model of src/weather.py: the WeatherPlugin of a chat bot.  An         *)
(* incoming event's text is searched for a weather keyword and a city      *)
(* phrase; the city is geocoded by one HTTP call, the weather fetched by a *)
(* second one, and the payload formatted into a reply.                     *)
(*                                                                         *)
(* Texts are sequences of characters.  A Latin letter, a digit, "@" and    *)
(* " " stand for themselves; a CJK character is written by its pinyin      *)
(* ("tian" "qi" is the keyword U+5929 U+6C14).                             *)
(***************************************************************************)
EXTENDS Integers, Sequences, FiniteSets

-----------------------------------------------------------------------------
(* Bounds of the model. *)

\* Longest text of the exhaustive text enumeration (specification SpecText).
MaxTextLen == 5
\* Longest text of the mention-stripping enumeration (specification SpecStrip).
MaxStripLen == 5
\* Number of events the host has in flight at once (specification Spec).
NumEvents == 2

-----------------------------------------------------------------------------
(* Character classes of the two patterns (Python 3 str patterns). *)

CJK == {"tian", "qi", "bei", "jing"}

Latin ==
  {"a","b","c","d","e","f","g","h","i","j","k","l","m",
   "n","o","p","q","r","s","t","u","v","w","x","y","z",
   "A","B","C","D","E","F","G","H","I","J","K","L","M",
   "N","O","P","Q","R","S","T","U","V","W","X","Y","Z"}

Digits == {"0","1","2","3","4","5","6","7","8","9"}

\* [一-龥a-zA-Z]
IsLetter(c) == c \in CJK \cup Latin

\* \w
IsWord(c) == IsLetter(c) \/ c \in Digits \/ c = "_"

\* \s
IsSpace(c) == c \in {" ", "\t", "\n"}

\* The two keyword variants of lines 16 and 64.
KwZh == <<"tian", "qi">>
KwEn == <<"w", "e", "a", "t", "h", "e", "r">>

\* Whether kw occurs in text starting at index i (1-based).
OccursAt(text, kw, i) ==
  /\ i >= 1
  /\ i + Len(kw) - 1 <= Len(text)
  /\ \A k \in 1..Len(kw) : text[i + k - 1] = kw[k]

\* Python's `kw in text`.
Contains(text, kw) == \E i \in 1..Len(text) : OccursAt(text, kw, i)

\* The first index >= i of text whose character is not a \w (Len+1 if none).
RECURSIVE SkipWord(_, _)
SkipWord(text, i) ==
  IF i <= Len(text) /\ IsWord(text[i]) THEN SkipWord(text, i + 1) ELSE i

\* The first index >= i of text whose character is not a \s (Len+1 if none).
RECURSIVE SkipSpace(_, _)
SkipSpace(text, i) ==
  IF i <= Len(text) /\ IsSpace(text[i]) THEN SkipSpace(text, i + 1) ELSE i

\* re.sub of @\w+\s* by "" from index i on: the scan goes left to right, a
\* match is removed whole and the scan resumes right after it.
RECURSIVE SubFrom(_, _)
SubFrom(text, i) ==
  IF i > Len(text) THEN <<>>
  ELSE IF text[i] = "@" /\ i + 1 <= Len(text) /\ IsWord(text[i + 1])
       THEN SubFrom(text, SkipSpace(text, SkipWord(text, i + 1)))
       ELSE <<text[i]>> \o SubFrom(text, i + 1)

\* A substitution that stops after the first match (re.sub with count=1).
RECURSIVE SubFirstFrom(_, _)
SubFirstFrom(text, i) ==
  IF i > Len(text) THEN <<>>
  ELSE IF text[i] = "@" /\ i + 1 <= Len(text) /\ IsWord(text[i + 1])
       THEN SubSeq(text, SkipSpace(text, SkipWord(text, i + 1)), Len(text))
       ELSE <<text[i]>> \o SubFirstFrom(text, i + 1)

MENTION_PATTERN_sub_first(text) == SubFirstFrom(text, 1)

\* MENTION_PATTERN.sub("", text)
MENTION_PATTERN_sub(text) == SubFrom(text, 1)

\* The length of the keyword at index i of text, 0 if there is none
\* ((?:KwZh|KwEn): the first alternative is tried first).
KeywordLenAt(text, i) ==
  IF OccursAt(text, KwZh, i) THEN Len(KwZh)
  ELSE IF OccursAt(text, KwEn, i) THEN Len(KwEn)
  ELSE 0

\* Whether text[i..j-1] matches L+(?:\s+L+)* : it starts and ends with a
\* letter and holds only letters and whitespace.
IsPhrase(text, i, j) ==
  /\ i < j
  /\ j - 1 <= Len(text)
  /\ IsLetter(text[i])
  /\ IsLetter(text[j - 1])
  /\ \A k \in i..(j - 1) : IsLetter(text[k]) \/ IsSpace(text[k])

Max(S) == CHOOSE x \in S : \A y \in S : y <= x

\* First alternative at index i: a phrase from i immediately followed by a
\* keyword.  The quantifiers are greedy and give back one character at a
\* time, so the phrase ends tried are the possible ends, longest first.
Alt1Ends(text, i) ==
  {j \in (i + 1)..(Len(text) + 1) :
     IsPhrase(text, i, j) /\ KeywordLenAt(text, j) > 0}

\* Second alternative at index i: a keyword at i, \s*, then a phrase taken
\* greedily (nothing follows it in the pattern, so nothing is given back).
Alt2Start(text, i) == SkipSpace(text, i + KeywordLenAt(text, i))
Alt2Ends(text, i) ==
  IF KeywordLenAt(text, i) = 0 THEN {}
  ELSE {j \in (Alt2Start(text, i) + 1)..(Len(text) + 1) :
          IsPhrase(text, Alt2Start(text, i), j)}

NoMatch == [matched |-> FALSE, group1 |-> <<>>, group2 |-> <<>>]

\* The match of LOCATION_PATTERN anchored at index i.
MatchAt(text, i) ==
  LET ends1 == Alt1Ends(text, i) IN
  IF ends1 # {}
  THEN [matched |-> TRUE,
        group1 |-> SubSeq(text, i, Max(ends1) - 1),
        group2 |-> <<>>]
  ELSE LET ends2 == Alt2Ends(text, i) IN
       IF ends2 # {}
       THEN [matched |-> TRUE,
             group1 |-> <<>>,
             group2 |-> SubSeq(text, Alt2Start(text, i), Max(ends2) - 1)]
       ELSE NoMatch

\* The search from index i on: the match at the leftmost index that has one.
RECURSIVE SearchFrom(_, _)
SearchFrom(text, i) ==
  IF i > Len(text) THEN NoMatch
  ELSE LET m == MatchAt(text, i)
       IN IF m.matched THEN m ELSE SearchFrom(text, i + 1)

\* LOCATION_PATTERN.search(text).  An unset group is the empty text here
\* (Python's None, falsy like "").
LOCATION_PATTERN_search(text) == SearchFrom(text, 1)

\* str.strip(): whitespace removed at both ends.
RECURSIVE StrStrip(_)
StrStrip(s) ==
  IF s = <<>> THEN s
  ELSE IF IsSpace(Head(s)) THEN StrStrip(Tail(s))
  ELSE IF IsSpace(s[Len(s)]) THEN StrStrip(SubSeq(s, 1, Len(s) - 1))
  ELSE s


-----------------------------------------------------------------------------
(* Python values and exceptions.  An evaluation either yields a value or  *)
(* raises; a JSON value carries its type, a number n stands for n/10.      *)

Ok(v) == [ok |-> TRUE, val |-> v]
Raise(e) == [ok |-> FALSE, exc |-> e]

None == [none |-> TRUE]
IsNone(v) == "none" \in DOMAIN v

JNull == [t |-> "null"]
JNum(n) == [t |-> "num", num |-> n]
JStr(s) == [t |-> "str", str |-> s]
JArr(a) == [t |-> "arr", arr |-> a]
JObj(o) == [t |-> "obj", obj |-> o]
\* A body response.json() cannot decode.
JInvalid == [t |-> "invalid"]

\* bool(v)
Truthy(v) ==
  CASE v.t = "null" -> FALSE
    [] v.t = "num" -> v.num # 0
    [] v.t = "str" -> v.str # ""
    [] v.t = "arr" -> v.arr # <<>>
    [] v.t = "obj" -> DOMAIN v.obj # {}

\* v[key] for a str key.
GetItem(v, key) ==
  IF v.t = "obj"
  THEN IF key \in DOMAIN v.obj THEN Ok(v.obj[key]) ELSE Raise("KeyError")
  ELSE Raise("TypeError")

\* v[0]  (an object's keys are strings, so 0 is never one of them; the first
\* character of a str is a str again, and only that matters to the callers).
GetFirst(v) ==
  CASE v.t = "arr" -> IF v.arr # <<>> THEN Ok(v.arr[1]) ELSE Raise("IndexError")
    [] v.t = "obj" -> Raise("KeyError")
    [] v.t = "str" -> IF v.str # "" THEN Ok(JStr("c")) ELSE Raise("IndexError")
    [] OTHER -> Raise("TypeError")

\* v.get(key, default)
DictGet(v, key, default) ==
  IF v.t = "obj"
  THEN Ok(IF key \in DOMAIN v.obj THEN v.obj[key] ELSE default)
  ELSE Raise("AttributeError")

\* round(v): to the nearest integer, a tie to the even one.
Round(v) ==
  IF v.t # "num" THEN Raise("TypeError")
  ELSE LET q == v.num \div 10
           r == v.num % 10
       IN Ok(IF r < 5 THEN q
             ELSE IF r > 5 THEN q + 1
             ELSE IF q % 2 = 0 THEN q ELSE q + 1)

\* n / d rounded to the nearest integer, a tie to the even one.
RoundDiv(n, d) ==
  LET q == n \div d
      r == n % d
  IN IF 2 * r < d THEN q
     ELSE IF 2 * r > d THEN q + 1
     ELSE IF q % 2 = 0 THEN q ELSE q + 1

\* The exception classes of the three except clauses.
ClientCaught == {"ClientError", "OSError", "ValueError", "KeyError"}
FormatCaught == {"ValueError", "KeyError", "TypeError"}
EntryCaught == {"ValueError", "KeyError"}

-----------------------------------------------------------------------------
(* The replies.  A response text is named by msg; the parts an f-string   *)
(* fills in are kept beside it.                                            *)

PromptCity == [msg |-> "prompt_city"]
CityNotFound(city) == [msg |-> "city_not_found", city |-> city]
ServiceUnavailable == [msg |-> "service_unavailable"]
ErrorOccurred == [msg |-> "error_occurred"]
ParseFailed == [msg |-> "parse_failed"]
CannotGet(city) == [msg |-> "cannot_get", city |-> city]
WeatherText(w) == [msg |-> "weather", weather |-> w]

\* What an entry point gave the host.
Pending == [kind |-> "pending"]
Returned(v) == [kind |-> "returned", value |-> v]
Raised(e) == [kind |-> "raised", exc |-> e]

\* self.name, set by the base class.
PluginName == "Weather"

\* PluginBase._validate_plugin_response: the reply holds handled,
\* plugin_name and a non-empty response.
validate_plugin_response(response) ==
  /\ {"handled", "plugin_name", "response"} \subseteq DOMAIN response
  /\ response.response.msg # ""

-----------------------------------------------------------------------------
(* The HTTP responses: a transport failure, or a status and a body.       *)

NoResponse == [kind |-> "none"]
Failure(e) == [kind |-> "failure", exc |-> e]
Http(status, body) == [kind |-> "http", status |-> status, body |-> body]

\* await response.json()
ResponseJson(resp) ==
  IF resp.body.t = "invalid" THEN Raise("ValueError") ELSE Ok(resp.body)

\* Lines 129-135: the coordinates in a decoded geocoding payload.
ParseCoordinates(data) ==
  IF ~Truthy(data) THEN Ok(None)
  ELSE
    LET location == GetFirst(data) IN
    IF ~location.ok THEN location
    ELSE
      LET name == GetItem(location.val, "name") IN
      IF ~name.ok THEN name
      ELSE
        LET country == DictGet(location.val, "country", JNull)
            has_country == "country" \in DOMAIN location.val.obj
            lat == GetItem(location.val, "lat")
            lon == GetItem(location.val, "lon")
        IN
        \* display_name += f", {country}" needs a str on the left
        \* (a list name is extended in place).
        IF has_country /\ name.val.t \notin {"str", "arr"} THEN Raise("TypeError")
        ELSE IF ~lat.ok THEN lat
        ELSE IF ~lon.ok THEN lon
        ELSE Ok([lat |-> lat.val,
                 lon |-> lon.val,
                 display_name |->
                   IF has_country
                   THEN [name |-> name.val, country |-> country.val]
                   ELSE [name |-> name.val]])

\* _get_coordinates from the moment the response arrives.
get_coordinates(resp) ==
  LET body ==
        IF resp.kind = "failure" THEN Raise(resp.exc)
        ELSE IF resp.status # 200 THEN Ok(None)
        ELSE LET data == ResponseJson(resp)
             IN IF ~data.ok THEN data ELSE ParseCoordinates(data.val)
  IN IF ~body.ok /\ body.exc \in ClientCaught THEN Ok(None) ELSE body

\* _format_weather_info_v25
format_weather_info_v25(data, display_name) ==
  LET body ==
        LET main == GetItem(data, "main") IN
        IF ~main.ok THEN main ELSE
        LET t1 == GetItem(main.val, "temp") IN
        IF ~t1.ok THEN t1 ELSE
        LET temp == Round(t1.val) IN
        IF ~temp.ok THEN temp ELSE
        LET f1 == GetItem(main.val, "feels_like") IN
        IF ~f1.ok THEN f1 ELSE
        LET feels_like == Round(f1.val) IN
        IF ~feels_like.ok THEN feels_like ELSE
        LET humidity == GetItem(main.val, "humidity") IN
        IF ~humidity.ok THEN humidity ELSE
        LET pressure == GetItem(main.val, "pressure") IN
        IF ~pressure.ok THEN pressure ELSE
        LET weather == GetItem(data, "weather") IN
        IF ~weather.ok THEN weather ELSE
        LET first == GetFirst(weather.val) IN
        IF ~first.ok THEN first ELSE
        LET description == GetItem(first.val, "description") IN
        IF ~description.ok THEN description ELSE
        LET wind == DictGet(data, "wind", JObj(<<>>)) IN
        IF ~wind.ok THEN wind ELSE
        LET wind_speed == DictGet(wind.val, "speed", JNum(0)) IN
        IF ~wind_speed.ok THEN wind_speed ELSE
        LET vis == DictGet(data, "visibility", JNum(0)) IN
        IF Truthy(vis.val) /\ vis.val.t # "num" THEN Raise("TypeError") ELSE
        LET visibility == IF Truthy(vis.val) THEN vis.val.num ELSE 0 IN
        Ok(WeatherText(
             [display_name |-> display_name,
              temp |-> temp.val,
              feels_like |-> feels_like.val,
              humidity |-> humidity.val,
              description |-> description.val,
              wind_speed |-> wind_speed.val,
              pressure |-> pressure.val,
              \* the line is added when visibility > 0, in km to one decimal
              has_visibility |-> visibility > 0,
              visibility_km |-> IF visibility > 0
                                THEN RoundDiv(visibility, 1000) ELSE 0]))
  IN IF ~body.ok /\ body.exc \in FormatCaught THEN Ok(ParseFailed) ELSE body

\* Lines 111-119 of _get_weather from the moment the weather response arrives.
weather_response(resp, display_name) ==
  LET body ==
        IF resp.kind = "failure" THEN Raise(resp.exc)
        ELSE IF resp.status = 200
        THEN LET data == ResponseJson(resp)
             IN IF ~data.ok THEN data
                ELSE format_weather_info_v25(data.val, display_name)
        ELSE Ok(ServiceUnavailable)
  IN IF ~body.ok /\ body.exc \in ClientCaught THEN Ok(ErrorOccurred) ELSE body

-----------------------------------------------------------------------------
(* The plugin and the events in flight.                                    *)

VARIABLES
  api_key,      \* self.api_key: "" when none is configured
  enabled,      \* self.enabled
  session,      \* self.session: "none", "open" or "closed"
  phase,        \* the host's lifecycle: "constructed", "initialized", "cleaned"
  init_result,  \* what initialize returned: "none" before it is called
  ev,           \* the events handed to on_message / on_mention, by number
  stripped      \* a text and the results of stripping its mentions again and again

vars == <<api_key, enabled, session, phase, init_result, ev, stripped>>

\* An event nobody dispatched yet.  pc is where the handler's coroutine is:
\* "idle", "geocoding" (awaiting the geocoding response), "weather" (awaiting
\* the weather response), "done".
IdleEvent ==
  [pc |-> "idle",
   entry |-> "none",
   data |-> [text |-> <<>>],
   text |-> <<>>,
   cleaned_text |-> <<>>,
   location |-> <<>>,
   coordinates |-> None,
   geo_requests |-> 0,
   weather_requests |-> 0,
   geo_response |-> NoResponse,
   weather_response |-> NoResponse,
   result |-> Pending]

\* Lines 43-45: on_mention's envelope unwrapping.
Unwrap(data) ==
  IF "note" \in DOMAIN data /\ "type" \in DOMAIN data THEN data.note ELSE data

\* data.get("text", "")
GetText(data) == IF "text" \in DOMAIN data THEN data.text ELSE <<>>

\* The test of line 64 inverted.
HasKeyword_inverted(text) == ~(Contains(text, KwZh) \/ Contains(text, KwEn))

\* Line 64 negated: the text holds a weather keyword.
HasKeyword(text) == Contains(text, KwZh) \/ Contains(text, KwEn)

\* Lines 74-78: the location of a match.
Location(location_match) ==
  IF location_match.matched
  THEN StrStrip(IF location_match.group1 # <<>> THEN location_match.group1
                ELSE location_match.group2)
  ELSE <<>>

\* The except clause of on_mention and on_message.
EntryBoundary(exc) == IF exc \in EntryCaught THEN Returned(None) ELSE Raised(exc)

\* Lines 87-96: the reply around what _get_weather returned.
WeatherReply(r, weather_info) ==
  LET response == [handled |-> TRUE,
                   plugin_name |-> PluginName,
                   response |-> IF IsNone(weather_info)
                                THEN CannotGet(r.location) ELSE weather_info]
  IN Returned(IF validate_plugin_response(response) THEN response ELSE None)

\* The entry point returns to the host.
Finish(r, result) == [r EXCEPT !.pc = "done", !.result = result]

\* Line 124 reached: the geocoding request.  With no session the attribute
\* lookup on None raises and no request leaves.
get_weather(r, sess) ==
  IF sess = "none"
  THEN Finish(r, EntryBoundary("AttributeError"))
  ELSE [r EXCEPT !.pc = "geocoding", !.geo_requests = @ + 1]

\* _handle_weather_request without the test of line 79.
handle_weather_request_unchecked(r, location_match, sess) ==
  get_weather([r EXCEPT !.location = Location(location_match)], sess)

\* _handle_weather_request up to its first await.
handle_weather_request(r, location_match, sess) ==
  LET location == Location(location_match)
      r1 == [r EXCEPT !.location = location]
  IN IF location = <<>>
     THEN Finish(r1, Returned([handled |-> TRUE,
                               plugin_name |-> PluginName,
                               response |-> PromptCity]))
     ELSE get_weather(r1, sess)

\* _process_weather_message up to its first await.  (The username of line 66
\* goes to the log only.)
process_weather_message(r, data, sess) ==
  LET text == GetText(data)
      r1 == [r EXCEPT !.text = text]
  IN IF ~HasKeyword(text)
     THEN Finish(r1, Returned(None))
     ELSE LET cleaned_text == MENTION_PATTERN_sub(text)
              location_match == LOCATION_PATTERN_search(cleaned_text)
          IN handle_weather_request([r1 EXCEPT !.cleaned_text = cleaned_text],
                                    location_match, sess)

\* on_mention up to its first await.
on_mention(r, data, sess) == process_weather_message(r, Unwrap(data), sess)

\* An on_message that unwraps the envelope as on_mention does.
on_message_unwrapping(r, data, sess) ==
  process_weather_message(r, Unwrap(data), sess)

\* on_message up to its first await.
on_message(r, data, sess) == process_weather_message(r, data, sess)

\* A handler that asks the geocoding service once more when it found nothing.
geocoding_done_retrying(r, resp) ==
  LET coordinates == get_coordinates(resp)
      r1 == [r EXCEPT !.geo_response = resp]
  IN IF coordinates.ok /\ ~IsNone(coordinates.val)
     THEN [r1 EXCEPT !.coordinates = coordinates.val,
                     !.pc = "weather",
                     !.weather_requests = @ + 1]
     ELSE IF r.geo_requests < 2
     THEN [r EXCEPT !.geo_requests = @ + 1]
     ELSE Finish(r1, WeatherReply(r1, CityNotFound(r1.location)))

\* The handler resumes with the geocoding response: lines 125-138, then
\* lines 101-111 of _get_weather up to the weather request.
geocoding_done(r, resp) ==
  LET coordinates == get_coordinates(resp)
      r1 == [r EXCEPT !.geo_response = resp]
  IN IF ~coordinates.ok
     THEN IF coordinates.exc \in ClientCaught
          THEN Finish(r1, WeatherReply(r1, ErrorOccurred))
          ELSE Finish(r1, EntryBoundary(coordinates.exc))
     ELSE IF IsNone(coordinates.val)
     THEN Finish(r1, WeatherReply(r1, CityNotFound(r1.location)))
     ELSE [r1 EXCEPT !.coordinates = coordinates.val,
                     !.pc = "weather",
                     !.weather_requests = @ + 1]

\* The handler resumes with the weather response: lines 112-119, then
\* lines 87-96.
weather_done(r, resp) ==
  LET weather_info == weather_response(resp, r.coordinates.display_name)
      r1 == [r EXCEPT !.weather_response = resp]
  IN IF ~weather_info.ok
     THEN Finish(r1, EntryBoundary(weather_info.exc))
     ELSE Finish(r1, WeatherReply(r1, weather_info.val))

-----------------------------------------------------------------------------
(* The inputs.                                                             *)

SeqsUpTo(S, n) == UNION {[1..k -> S] : k \in 0..n}

TextAlphabet == {"tian", "qi", "a", "1", "@", " "}
StripAlphabet == {"@", "a", " ", "."}

Beijing == <<"bei", "jing", "tian", "qi">>
Weather == KwEn
AtlantisWeather ==
  <<"A","t","l","a","n","t","i","s"," ","w","e","a","t","h","e","r">>
WeatherAtlantis ==
  <<"w","e","a","t","h","e","r"," ","A","t","l","a","n","t","i","s">>
Hello == <<"h", "e", "l", "l", "o">>

ScenarioTexts == {Beijing, Weather, Hello}

\* The two event shapes of the host.
Unwrapped(t) == [text |-> t]
Wrapped(t) == [type |-> "mention", note |-> [text |-> t]]
EventsOf(T) == {Unwrapped(t) : t \in T} \cup {Wrapped(t) : t \in T}

Entries == {"on_message", "on_mention"}

PlaceCN ==
  JObj([name |-> JStr("Beijing"), country |-> JStr("CN"),
        lat |-> JNum(399), lon |-> JNum(1164)])
PlaceNoCountry ==
  JObj([name |-> JStr("Atlantis"), lat |-> JNum(0), lon |-> JNum(0)])

\* Geocoding responses: one per outcome the code tells apart.
GeoFailures == {Failure("ClientError"), Failure("OSError")}
GeoFound == {Http(200, JArr(<<PlaceCN>>)), Http(200, JArr(<<PlaceNoCountry>>))}
GeoEmpty ==
  {Http(200, JArr(<<>>)), Http(200, JNull), Http(200, JObj(<<>>))}
GeoStatus == {Http(404, JNull), Http(500, JInvalid)}
GeoMalformed ==
  {Http(200, JInvalid),
   Http(200, JObj([cod |-> JNum(4010)])),
   Http(200, JArr(<<JObj([lat |-> JNum(399), lon |-> JNum(1164)])>>)),
   Http(200, JArr(<<JObj([name |-> JStr("Beijing"), lon |-> JNum(1164)])>>)),
   Http(200, JArr(<<JObj([name |-> JStr("Beijing"), lat |-> JNum(399)])>>)),
   Http(200, JArr(<<JStr("Beijing")>>)),
   Http(200, JArr(<<JNull>>)),
   Http(200, JArr(<<JArr(<<JNum(399), JNum(1164)>>)>>)),
   Http(200, JArr(<<JObj([name |-> JNull, country |-> JStr("CN"),
                          lat |-> JNum(399), lon |-> JNum(1164)])>>))}
GeoResponses ==
  GeoFailures \cup GeoFound \cup GeoEmpty \cup GeoStatus \cup GeoMalformed

Main ==
  JObj([temp |-> JNum(216), feels_like |-> JNum(201),
        humidity |-> JNum(450), pressure |-> JNum(10130)])
Sunny == JArr(<<JObj([description |-> JStr("sunny")])>>)

\* Weather responses: one per outcome the code tells apart.
WxFailures == {Failure("ClientError"), Failure("OSError")}
WxStatus == {Http(500, JInvalid), Http(401, JObj([cod |-> JNum(4010)]))}
WxGood ==
  {Http(200, JObj([main |-> Main, weather |-> Sunny,
                   wind |-> JObj([speed |-> JNum(32)]),
                   visibility |-> JNum(100000)])),
   Http(200, JObj([main |-> Main, weather |-> Sunny])),
   Http(200, JObj([main |-> Main, weather |-> Sunny, wind |-> JObj(<<>>),
                   visibility |-> JNum(0)]))}
WxMalformed ==
  {Http(200, JInvalid),
   Http(200, JNull),
   Http(200, JArr(<<>>)),
   Http(200, JObj([weather |-> Sunny])),
   Http(200, JObj([main |-> JNull, weather |-> Sunny])),
   Http(200, JObj([main |-> JObj([temp |-> JNum(216)]), weather |-> Sunny])),
   Http(200, JObj([main |-> JObj([temp |-> JStr("21.6"),
                                  feels_like |-> JNum(201),
                                  humidity |-> JNum(450),
                                  pressure |-> JNum(10130)]),
                   weather |-> Sunny])),
   Http(200, JObj([main |-> Main])),
   Http(200, JObj([main |-> Main, weather |-> JArr(<<>>)])),
   Http(200, JObj([main |-> Main, weather |-> JArr(<<JObj(<<>>)>>)])),
   Http(200, JObj([main |-> Main, weather |-> JArr(<<JNull>>)])),
   Http(200, JObj([main |-> Main, weather |-> JObj(<<>>)])),
   Http(200, JObj([main |-> Main, weather |-> Sunny, wind |-> JNull])),
   Http(200, JObj([main |-> Main, weather |-> Sunny,
                   visibility |-> JStr("far")]))}
WxResponses == WxFailures \cup WxStatus \cup WxGood \cup WxMalformed

\* The responses of the concurrent scenario: one of each kind.
ScenarioGeo ==
  {Failure("ClientError"), Http(404, JNull), Http(200, JInvalid),
   Http(200, JArr(<<>>)), Http(200, JArr(<<PlaceCN>>)),
   Http(200, JArr(<<JNull>>))}
ScenarioWx ==
  {Failure("ClientError"), Http(500, JInvalid), Http(200, JInvalid),
   Http(200, JObj([main |-> Main, weather |-> Sunny])),
   Http(200, JObj([main |-> Main, weather |-> JArr(<<>>)]))}

-----------------------------------------------------------------------------
(* The operations.                                                         *)

\* __init__ with either configuration, before any event.
InitPlugin(n) ==
  /\ api_key \in {"", "key"}
  /\ enabled = (api_key # "")
  /\ session = "none"
  /\ phase = "constructed"
  /\ init_result = "none"
  /\ ev = [e \in 1..n |-> IdleEvent]

\* initialize
Initialize ==
  /\ phase = "constructed"
  /\ phase' = "initialized"
  /\ IF api_key = ""
     THEN /\ enabled' = FALSE
          /\ init_result' = "False"
          /\ UNCHANGED session
     ELSE /\ session' = "open"
          /\ init_result' = "True"
          /\ UNCHANGED enabled
  /\ UNCHANGED <<api_key, ev, stripped>>

\* cleanup: the base class closes the registered session.  The host calls it
\* at shutdown, when no event is being handled.
Cleanup ==
  /\ phase = "initialized"
  /\ \A e \in DOMAIN ev : ev[e].pc \in {"idle", "done"}
  /\ phase' = "cleaned"
  /\ session' = IF session = "open" THEN "closed" ELSE session
  /\ UNCHANGED <<api_key, enabled, init_result, ev, stripped>>

\* The host hands event e, one of events, to an entry point, which runs to
\* its first await or to its end.
Dispatch(e, events) ==
  /\ phase = "initialized"
  /\ ev[e].pc = "idle"
  /\ \E entry \in Entries, data \in events :
       LET r == [ev[e] EXCEPT !.entry = entry, !.data = data]
       IN ev' = [ev EXCEPT ![e] = IF entry = "on_mention"
                                   THEN on_mention(r, data, session)
                                   ELSE on_message(r, data, session)]
  /\ UNCHANGED <<api_key, enabled, session, phase, init_result, stripped>>

\* The geocoding call of event e completes with one of responses.
GeocodingResponse(e, responses) ==
  /\ ev[e].pc = "geocoding"
  /\ \E resp \in responses : ev' = [ev EXCEPT ![e] = geocoding_done(ev[e], resp)]
  /\ UNCHANGED <<api_key, enabled, session, phase, init_result, stripped>>

\* The weather call of event e completes with one of responses.
WeatherResponse(e, responses) ==
  /\ ev[e].pc = "weather"
  /\ \E resp \in responses : ev' = [ev EXCEPT ![e] = weather_done(ev[e], resp)]
  /\ UNCHANGED <<api_key, enabled, session, phase, init_result, stripped>>

\* One more pass of mention stripping over the last result.
StripAgain ==
  /\ stripped # <<>>
  /\ Len(stripped) < 3
  /\ stripped' = Append(stripped, MENTION_PATTERN_sub(stripped[Len(stripped)]))
  /\ UNCHANGED <<api_key, enabled, session, phase, init_result, ev>>

-----------------------------------------------------------------------------
(* The specifications.                                                     *)

\* Several events in flight at once, over the scenario inputs.
Init == InitPlugin(NumEvents) /\ stripped = <<>>

\* Both shapes of every scenario text, an envelope that has a text of its own
\* and a note without a type.
ScenarioEvents ==
  EventsOf(ScenarioTexts)
    \cup {[type |-> "mention", text |-> Weather, note |-> [text |-> Beijing]],
          [note |-> [text |-> Beijing]]}

Next ==
  \/ Initialize
  \/ Cleanup
  \/ \E e \in DOMAIN ev : Dispatch(e, ScenarioEvents)
  \/ \E e \in DOMAIN ev : GeocodingResponse(e, ScenarioGeo)
  \/ \E e \in DOMAIN ev : WeatherResponse(e, ScenarioWx)

Spec == Init /\ [][Next]_vars

\* One event, over every short text and every response.
InitText == InitPlugin(1) /\ stripped = <<>>

AllTexts ==
  SeqsUpTo(TextAlphabet, MaxTextLen) \cup ScenarioTexts
    \cup {AtlantisWeather, WeatherAtlantis}
AllEvents == EventsOf(AllTexts)

NextText ==
  \/ Initialize
  \/ Cleanup
  \/ Dispatch(1, AllEvents)
  \/ GeocodingResponse(1, GeoResponses)
  \/ WeatherResponse(1, WxResponses)

SpecText == InitText /\ [][NextText]_vars

\* Mention stripping alone, over every short text.
InitStrip ==
  /\ InitPlugin(0)
  /\ \E t \in SeqsUpTo(StripAlphabet, MaxStripLen) : stripped = <<t>>

NextStrip == StripAgain

SpecStrip == InitStrip /\ [][NextStrip]_vars

-----------------------------------------------------------------------------
(* The properties.                                                         *)

Dispatched(e) == ev[e].entry # "none"
Done(e) == ev[e].pc = "done"
NoRequest(e) == ev[e].geo_requests = 0 /\ ev[e].weather_requests = 0

\* The entry point returned a reply with handled = true and the text msg.
Replied(e, msg) ==
  /\ ev[e].result.kind = "returned"
  /\ ~IsNone(ev[e].result.value)
  /\ ev[e].result.value.handled
  /\ ev[e].result.value.response.msg = msg

RaisedToHost(e) == ev[e].result.kind = "raised"

\* The event is an envelope: it has a note and a type.
IsEnvelope(data) == {"note", "type"} \subseteq DOMAIN data

\* The text of an event: the note's inside an envelope, its own otherwise.
EventText(data) ==
  IF IsEnvelope(data)
  THEN IF "text" \in DOMAIN data.note THEN data.note.text ELSE <<>>
  ELSE IF "text" \in DOMAIN data THEN data.text ELSE <<>>

\* t holds kw somewhere.
Holds(t, kw) ==
  \E i \in 1..Len(t) :
    i + Len(kw) - 1 <= Len(t) /\ SubSeq(t, i, i + Len(kw) - 1) = kw

\* A city phrase is adjacent to a keyword of t: a letter right before the
\* keyword, or a letter after it with nothing but whitespace between.
CityAdjacent(t) ==
  \E kw \in {KwZh, KwEn} : \E i \in 1..Len(t) :
    /\ i + Len(kw) - 1 <= Len(t)
    /\ SubSeq(t, i, i + Len(kw) - 1) = kw
    /\ \/ i > 1 /\ IsLetter(t[i - 1])
       \/ \E j \in (i + Len(kw))..Len(t) :
            /\ IsLetter(t[j])
            /\ \A k \in (i + Len(kw))..(j - 1) : IsSpace(t[k])

\* C1: whatever the event and the outcome of the two remote calls, no
\* exception propagates out of on_message or on_mention to the host (stated
\* for a plugin whose API key is configured; C5 is the other case).
C1_NoExceptionReachesHost ==
  \A e \in DOMAIN ev : api_key # "" => ~RaisedToHost(e)

\* C2: an event whose text holds neither keyword is answered by nothing, at
\* once, and no geocoding or weather request is issued for it.
C2_NoKeywordNoReply ==
  \A e \in DOMAIN ev :
    (Dispatched(e) /\ ~Holds(EventText(ev[e].data), KwZh)
                   /\ ~Holds(EventText(ev[e].data), KwEn))
      => /\ Done(e)
         /\ ev[e].result = Returned(None)
         /\ NoRequest(e)

C2_Witness ==
  \E e \in DOMAIN ev :
    /\ Done(e)
    /\ ev[e].entry = "on_message"
    /\ ev[e].data = [text |-> <<"@", "a", " ", "a">>]
    /\ ev[e].result = Returned(None)
    /\ session = "open"

\* C3: when the text the core handler is given holds a keyword but, mentions
\* stripped, no city phrase adjacent to one, the reply is the prompt for a
\* city with handled = true, and no HTTP request is issued.
C3_KeywordWithoutCityPrompts ==
  \A e \in DOMAIN ev :
    (/\ Dispatched(e)
     /\ Holds(ev[e].text, KwZh) \/ Holds(ev[e].text, KwEn)
     /\ ~CityAdjacent(ev[e].cleaned_text))
      => /\ Done(e)
         /\ Replied(e, "prompt_city")
         /\ NoRequest(e)

C3_Witness ==
  \E e \in DOMAIN ev :
    /\ Done(e)
    /\ ev[e].text = Weather
    /\ Replied(e, "prompt_city")
    /\ NoRequest(e)
    /\ session = "open"

\* C4: for the text "Atlantis weather" the location extracted is "Atlantis",
\* one geocoding request is made for it, and when that returns an empty
\* array the reply is the city-not-found text naming Atlantis.
C4_AtlantisWeatherIsGeocoded ==
  \A e \in DOMAIN ev :
    (Dispatched(e) /\ session = "open" /\ ev[e].text = AtlantisWeather)
      => /\ ev[e].location = <<"A", "t", "l", "a", "n", "t", "i", "s">>
         /\ ev[e].geo_requests = 1
         /\ (Done(e) /\ ev[e].geo_response = Http(200, JArr(<<>>)))
              => /\ Replied(e, "city_not_found")
                 /\ ev[e].result.value.response.city = ev[e].location

\* C5: with no API key initialize returns failure, creates no session and
\* leaves the plugin disabled, and afterwards no event causes an HTTP request
\* or an exception.
C5_NoKeyNoFailure ==
  (api_key = "" /\ phase # "constructed")
    => /\ init_result = "False"
       /\ session = "none"
       /\ ~enabled
       /\ \A e \in DOMAIN ev : NoRequest(e) /\ ~RaisedToHost(e)

\* An "@" stands right before a mention marker ("@" and a word character).
AtBeforeMention(t) ==
  \E i \in 1..(Len(t) - 2) :
    t[i] = "@" /\ t[i + 1] = "@" /\ IsWord(t[i + 2])

\* C6 as claimed: stripping the mentions twice gives what stripping once
\* gives, for every text.
C6_StripIdempotent ==
  Len(stripped) = 3 => stripped[3] = stripped[2]

\* C6 as amended: stripping the mentions twice gives what stripping once
\* gives, for every text in which no "@" stands right before a mention
\* marker.
C6_StripIdempotentApart ==
  (Len(stripped) = 3 /\ ~AtBeforeMention(stripped[1]))
    => stripped[3] = stripped[2]

C6_Witness ==
  /\ Len(stripped) = 3
  /\ ~AtBeforeMention(stripped[1])
  /\ stripped[1] = <<"@", "@", " ", "@", "a">>
  /\ stripped[2] = <<"@", "@", " ">>
  /\ stripped[3] = stripped[2]

\* The payload has every field the formatter requires, well formed.
HasRequiredFields(body) ==
  /\ body.t = "obj"
  /\ {"main", "weather"} \subseteq DOMAIN body.obj
  /\ body.obj.main.t = "obj"
  /\ {"temp", "feels_like", "humidity", "pressure"} \subseteq DOMAIN body.obj.main.obj
  /\ body.obj.main.obj.temp.t = "num"
  /\ body.obj.main.obj.feels_like.t = "num"
  /\ body.obj.weather.t = "arr"
  /\ body.obj.weather.arr # <<>>
  /\ body.obj.weather.arr[1].t = "obj"
  /\ "description" \in DOMAIN body.obj.weather.arr[1].obj

\* C7: once the weather response has arrived the client ends in a string: a
\* status other than 200 gives "service unavailable", a transport or decoding
\* failure "error occurred", a 200 payload with a missing or malformed
\* required field "parsing failed"; no exception leaves the client.
C7_WeatherClientTotal ==
  \A e \in DOMAIN ev :
    LET resp == ev[e].weather_response IN
    (Done(e) /\ resp.kind # "none")
      => /\ ~RaisedToHost(e)
         /\ resp.kind = "failure" => Replied(e, "error_occurred")
         /\ (resp.kind = "http" /\ resp.status # 200)
              => Replied(e, "service_unavailable")
         /\ (resp.kind = "http" /\ resp.status = 200 /\ resp.body.t = "invalid")
              => Replied(e, "error_occurred")
         /\ (resp.kind = "http" /\ resp.status = 200 /\ resp.body.t # "invalid"
               /\ ~HasRequiredFields(resp.body))
              => Replied(e, "parse_failed")

\* The geocoding call failed: a transport error, a status other than 200, an
\* empty result, or a payload whose first element is no object with name,
\* lat and lon.
GeocodingFailed(resp) ==
  \/ resp.kind = "failure"
  \/ resp.kind = "http" /\ resp.status # 200
  \/ /\ resp.kind = "http"
     /\ resp.status = 200
     /\ \/ resp.body.t # "arr"
        \/ resp.body.arr = <<>>
        \/ resp.body.arr[1].t # "obj"
        \/ ~({"name", "lat", "lon"} \subseteq DOMAIN resp.body.arr[1].obj)

\* C8: the geocoding client never raises, and whenever the call failed the
\* reply is the city-not-found text for the location and no weather request
\* is issued.
C8_GeocodingClientTotal ==
  \A e \in DOMAIN ev :
    LET resp == ev[e].geo_response IN
    resp.kind # "none"
      => /\ ~RaisedToHost(e)
         /\ GeocodingFailed(resp)
              => /\ Done(e)
                 /\ Replied(e, "city_not_found")
                 /\ ev[e].result.value.response.city = ev[e].location
                 /\ ev[e].weather_requests = 0

\* Two events that both got an answer to a call got the same one.
SameResponses(e1, e2) ==
  /\ \/ ev[e1].geo_response.kind = "none"
     \/ ev[e2].geo_response.kind = "none"
     \/ ev[e1].geo_response = ev[e2].geo_response
  /\ \/ ev[e1].weather_response.kind = "none"
     \/ ev[e2].weather_response.kind = "none"
     \/ ev[e1].weather_response = ev[e2].weather_response

TextRead(entry, data) ==
  IF entry = "on_mention" /\ IsEnvelope(data)
  THEN IF "text" \in DOMAIN data.note THEN data.note.text ELSE <<>>
  ELSE IF "text" \in DOMAIN data THEN data.text ELSE <<>>

CallFailed(resp) ==
  \/ resp.kind = "failure"
  \/ resp.kind = "http" /\ resp.status # 200
  \/ resp.kind = "http" /\ resp.body.t = "invalid"

\* The geocoding call found a place: status 200 and a non-empty array.
GeocodingFound(resp) ==
  /\ resp.kind = "http"
  /\ resp.status = 200
  /\ resp.body.t = "arr"
  /\ resp.body.arr # <<>>

C10_Chain ==
  \A e \in DOMAIN ev :
    /\ ev[e].geo_requests <= 1
    /\ ev[e].weather_requests <= 1
    /\ ev[e].weather_requests = 1
         => ev[e].geo_requests = 1 /\ GeocodingFound(ev[e].geo_response)
    /\ CallFailed(ev[e].geo_response)
         => Done(e) /\ ev[e].weather_requests = 0 /\ Replied(e, "city_not_found")
    /\ CallFailed(ev[e].weather_response)
         => /\ Done(e)
            /\ Replied(e, "service_unavailable") \/ Replied(e, "error_occurred")

C10_Step ==
  /\ \A e \in DOMAIN ev :
       \* a step issues at most one request for an event, and takes none back
       /\ ev'[e].geo_requests >= ev[e].geo_requests
       /\ ev'[e].weather_requests >= ev[e].weather_requests
       /\ ev'[e].geo_requests + ev'[e].weather_requests
            <= ev[e].geo_requests + ev[e].weather_requests + 1
       \* the weather request leaves in the step the geocoding response arrives
       /\ ev'[e].weather_requests > ev[e].weather_requests
            => ev[e].pc = "geocoding" /\ ev'[e].geo_response.kind # "none"
       \* an event that has its reply stays as it is
       /\ Done(e) => ev'[e] = ev[e]
  \* a step of one event leaves the others alone
  /\ \A e1, e2 \in DOMAIN ev :
       (ev'[e1] # ev[e1] /\ ev'[e2] # ev[e2]) => e1 = e2

\* C10: per event the calls form one chain without retry: at most one
\* geocoding and one weather request, the weather request only once the
\* geocoding call returned a non-empty successful result, and after a failed
\* call the fallback reply with no further request; each event on its own
\* while others are in flight.
C10_OneChainPerEvent == []C10_Chain /\ [][C10_Step]_vars

C10_Witness ==
  \E e1, e2 \in DOMAIN ev :
    /\ e1 # e2
    /\ ev[e1].pc = "geocoding"
    /\ Done(e2)
    /\ ev[e2].weather_requests = 1
    /\ CallFailed(ev[e2].weather_response)
    /\ Replied(e2, "service_unavailable")

====
